---- MODULE Spec2Model ----
(***************************************************************************)
(* The correlation page of app.py: the cached price fetch, the resampler,  *)
(* the missing-data cleaner, the returns transform, the whole-range and    *)
(* the rolling-window correlation, and the display / download section.     *)
(*                                                                         *)
(* Representation.  A DataFrame is a record                                *)
(*     [kind |-> "DataFrame", cols, idx, val]                              *)
(* with cols the column labels, idx the row labels (dates are day numbers  *)
(* counted from Thursday 1970-01-01) and val[r][c] the cell of row r and   *)
(* column c.  A cell is NaN (the empty tuple) or an exact rational         *)
(* <<num, den>> in lowest terms with den > 0.  None is [kind |-> "None"].  *)
(* Logarithms are taken of prices that are powers of two and are stored in *)
(* units of ln 2, which keeps np.log exact.  A correlation coefficient r   *)
(* is stored as <<sign(r), a, b>> with r^2 = a/b in lowest terms, so 1.0   *)
(* is <<1, 1, 1>> and the coefficient is NaN when the divisor is zero.     *)
(***************************************************************************)
EXTENDS Integers, Sequences, FiniteSets, TLC

(***************************************************************************)
(* Arithmetic helpers                                                      *)
(***************************************************************************)
Abs(x) == IF x < 0 THEN 0 - x ELSE x

Sign(x) == IF x < 0 THEN 0 - 1 ELSE IF x = 0 THEN 0 ELSE 1

Max(a, b) == IF a >= b THEN a ELSE b

RECURSIVE Gcd(_, _)
Gcd(a, b) == IF b = 0 THEN a ELSE Gcd(b, a % b)

Lcm(a, b) == (a * b) \div Gcd(a, b)

RECURSIVE SumSeq(_)
SumSeq(s) == IF Len(s) = 0 THEN 0 ELSE Head(s) + SumSeq(Tail(s))

RECURSIVE LcmSeq(_)
LcmSeq(s) == IF Len(s) = 0 THEN 1 ELSE Lcm(Head(s), LcmSeq(Tail(s)))

\* the element of a one-element set; The({F(x) : x \in {e}}) is F(e) with e
\* evaluated once
The(S) == CHOOSE x \in S : TRUE

RECURSIVE SortedSeq(_)
SortedSeq(S) ==
    IF S = {} THEN <<>>
    ELSE LET m == CHOOSE x \in S : \A y \in S : x <= y
         IN  <<m>> \o SortedSeq(S \ {m})

(***************************************************************************)
(* Cells and frames                                                        *)
(***************************************************************************)
NaN == <<>>

IsNa(c) == Len(c) = 0

Rat(n, d) ==
    LET g == Gcd(Abs(n), Abs(d))
    IN  IF d < 0 THEN <<(0 - n) \div g, (0 - d) \div g>> ELSE <<n \div g, d \div g>>

Val(n) == <<n, 1>>

None == [kind |-> "None"]

IsNone(x) == x.kind = "None"

Frame(cols, idx, val) == [kind |-> "DataFrame", cols |-> cols, idx |-> idx, val |-> val]

\* pd.DataFrame(): no columns, no rows
EmptyFrame == Frame(<<>>, <<>>, <<>>)

NRows(df) == Len(df.idx)

NCols(df) == Len(df.cols)

\* DataFrame.empty: any axis of length 0
IsEmpty(df) == NRows(df) = 0 \/ NCols(df) = 0

Column(df, c) == [r \in 1..NRows(df) |-> df.val[r][c]]

\* the frame restricted to the rows rs and the columns cs (sequences of positions)
Take(df, rs, cs) ==
    Frame([j \in 1..Len(cs) |-> df.cols[cs[j]]],
          [i \in 1..Len(rs) |-> df.idx[rs[i]]],
          [i \in 1..Len(rs) |-> [j \in 1..Len(cs) |-> df.val[rs[i]][cs[j]]]])

AllRows(df) == [i \in 1..NRows(df) |-> i]

AllCols(df) == [j \in 1..NCols(df) |-> j]

RowHasNa(df, r) == \E c \in 1..NCols(df) : IsNa(df.val[r][c])

RowAllNa(df, r) == \A c \in 1..NCols(df) : IsNa(df.val[r][c])

ColAllNa(df, c) == \A r \in 1..NRows(df) : IsNa(df.val[r][c])

\* DataFrame.dropna(): drop the rows holding at least one NaN
DropNa(df) == Take(df, SortedSeq({r \in 1..NRows(df) : ~RowHasNa(df, r)}), AllCols(df))

\* DataFrame.dropna(how="all"): drop the rows holding nothing but NaN
DropNaHowAll(df) == Take(df, SortedSeq({r \in 1..NRows(df) : ~RowAllNa(df, r)}), AllCols(df))

\* DataFrame.dropna(axis=1, how="all"): drop the columns holding no value
DropNaColumns(df) == Take(df, AllRows(df), SortedSeq({c \in 1..NCols(df) : ~ColAllNa(df, c)}))

\* the last valid cell of column c among the rows rs (a set of positions), NaN if none
LastValid(df, c, rs) ==
    LET ok == {r \in rs : ~IsNa(df.val[r][c])}
    IN  IF ok = {} THEN NaN
        ELSE df.val[CHOOSE r \in ok : \A q \in ok : q <= r][c]

\* DataFrame.ffill(): each NaN takes the last valid value above it in its column
Ffill(df) ==
    Frame(df.cols, df.idx,
          [r \in 1..NRows(df) |-> [c \in 1..NCols(df) |-> LastValid(df, c, 1..r)]])

(***************************************************************************)
(* Calendar: day 0 is Thursday 1970-01-01; weekdays count from Monday = 0  *)
(***************************************************************************)
Weekday(d) == (d + 3) % 7

\* "W-FRI": the Friday on or after day d closes d's week
WeekEnd(d) == d + ((4 + 7 - Weekday(d)) % 7)

\* last days of January .. June 1970
MonthEnds == <<30, 58, 89, 119, 150, 180>>

\* "M": the month end on or after day d closes d's month
MonthEnd(d) == MonthEnds[CHOOSE k \in 1..Len(MonthEnds) :
                    /\ d <= MonthEnds[k]
                    /\ \A j \in 1..(k - 1) : MonthEnds[j] < d]

\* the bin ends from the first row's bin to the last row's bin, none left out
WeekBins(df) ==
    LET lo == WeekEnd(df.idx[1])
        hi == WeekEnd(df.idx[NRows(df)])
    IN  SortedSeq({b \in lo..hi : (b - lo) % 7 = 0})

MonthBins(df) ==
    LET lo == MonthEnd(df.idx[1])
        hi == MonthEnd(df.idx[NRows(df)])
    IN  SortedSeq({MonthEnds[k] : k \in {j \in 1..Len(MonthEnds) : lo <= MonthEnds[j] /\ MonthEnds[j] <= hi}})

\* DataFrame.resample(rule).last(): one row per bin, labelled by the bin end; a cell
\* is the last valid value of its column among the bin's rows, NaN for none
ResampleWeekly(df) ==
    The({Frame(df.cols, bins,
               [i \in 1..Len(bins) |-> [c \in 1..NCols(df) |->
                   LastValid(df, c, {r \in 1..NRows(df) : WeekEnd(df.idx[r]) = bins[i]})]]) :
            bins \in {WeekBins(df)}})

ResampleMonthly(df) ==
    The({Frame(df.cols, bins,
               [i \in 1..Len(bins) |-> [c \in 1..NCols(df) |->
                   LastValid(df, c, {r \in 1..NRows(df) : MonthEnd(df.idx[r]) = bins[i]})]]) :
            bins \in {MonthBins(df)}})

IntervalLabels == {"Daily", "Weekly (Fri close)", "Monthly (month-end)"}

\* faulty variant: a bin without a value is padded with the value of the bin before
resample_prices_padded(prices_df, interval_label) ==
    IF IsEmpty(prices_df) THEN prices_df
    ELSE IF interval_label = "Daily" THEN prices_df
    ELSE IF interval_label = "Weekly (Fri close)" THEN Ffill(ResampleWeekly(prices_df))
    ELSE IF interval_label = "Monthly (month-end)" THEN Ffill(ResampleMonthly(prices_df))
    ELSE prices_df

resample_prices(prices_df, interval_label) ==
    IF IsEmpty(prices_df) THEN prices_df
    ELSE IF interval_label = "Daily" THEN prices_df
    ELSE IF interval_label = "Weekly (Fri close)" THEN ResampleWeekly(prices_df)
    ELSE IF interval_label = "Monthly (month-end)" THEN ResampleMonthly(prices_df)
    ELSE prices_df

(***************************************************************************)
(* Returns                                                                 *)
(***************************************************************************)
\* a / b - 1 for two valid cells, NaN if either is missing
PctCell(a, b) ==
    IF IsNa(a) \/ IsNa(b) THEN NaN
    ELSE Rat(a[1] * b[2] - b[1] * a[2], b[1] * a[2])

\* DataFrame.pct_change(): row t holds p[t] / p[t-1] - 1, the first row NaN
PctChange(df) ==
    Frame(df.cols, df.idx,
          [r \in 1..NRows(df) |-> [c \in 1..NCols(df) |->
              IF r = 1 THEN NaN ELSE PctCell(df.val[r][c], df.val[r - 1][c])]])

\* log2 of a power of two: np.log in units of ln 2
RECURSIVE Log2(_)
Log2(p) == IF p = 1 THEN 0 ELSE 1 + Log2(p \div 2)

LogCell(a) == IF IsNa(a) THEN NaN ELSE Val(Log2(a[1]))

\* np.log(df)
NpLog(df) ==
    Frame(df.cols, df.idx,
          [r \in 1..NRows(df) |-> [c \in 1..NCols(df) |-> LogCell(df.val[r][c])]])

DiffCell(a, b) ==
    IF IsNa(a) \/ IsNa(b) THEN NaN
    ELSE Rat(a[1] * b[2] - b[1] * a[2], a[2] * b[2])

\* DataFrame.diff(): row t holds x[t] - x[t-1], the first row NaN
Diff(df) ==
    Frame(df.cols, df.idx,
          [r \in 1..NRows(df) |-> [c \in 1..NCols(df) |->
              IF r = 1 THEN NaN ELSE DiffCell(df.val[r][c], df.val[r - 1][c])]])

(***************************************************************************)
(* Pearson correlation, DataFrame.corr() (min_periods = 1)                 *)
(***************************************************************************)
\* the rows on which both columns hold a value
PairRows(df, a, b) ==
    SortedSeq({r \in 1..NRows(df) : ~IsNa(df.val[r][a]) /\ ~IsNa(df.val[r][b])})

\* faulty variant: the covariance is divided by the first column's sum of squared
\* deviations alone (a regression slope, not a correlation)
CoefSlope(df, a, b) ==
    LET rows == PairRows(df, a, b)
        n    == Len(rows)
        D    == LcmSeq([i \in 1..n |-> Lcm(df.val[rows[i]][a][2], df.val[rows[i]][b][2])])
        x    == [i \in 1..n |-> df.val[rows[i]][a][1] * (D \div df.val[rows[i]][a][2])]
        y    == [i \in 1..n |-> df.val[rows[i]][b][1] * (D \div df.val[rows[i]][b][2])]
        sx   == SumSeq(x)
        sy   == SumSeq(y)
        ssx  == n * SumSeq([i \in 1..n |-> x[i] * x[i]]) - sx * sx
        cov  == n * SumSeq([i \in 1..n |-> x[i] * y[i]]) - sx * sy
        g    == Gcd(cov * cov, ssx * ssx)
    IN  IF n < 1 THEN NaN
        ELSE IF ssx = 0 THEN NaN
        ELSE <<Sign(cov), (cov * cov) \div g, (ssx * ssx) \div g>>

\* the coefficient of columns a and b: covariance over the square root of the
\* product of the two sums of squared deviations, NaN when that divisor is zero
Coef(df, a, b) ==
    LET rows == PairRows(df, a, b)
        n    == Len(rows)
        D    == LcmSeq([i \in 1..n |-> Lcm(df.val[rows[i]][a][2], df.val[rows[i]][b][2])])
        x    == [i \in 1..n |-> df.val[rows[i]][a][1] * (D \div df.val[rows[i]][a][2])]
        y    == [i \in 1..n |-> df.val[rows[i]][b][1] * (D \div df.val[rows[i]][b][2])]
        sx   == SumSeq(x)
        sy   == SumSeq(y)
        ssx  == n * SumSeq([i \in 1..n |-> x[i] * x[i]]) - sx * sx
        ssy  == n * SumSeq([i \in 1..n |-> y[i] * y[i]]) - sy * sy
        cov  == n * SumSeq([i \in 1..n |-> x[i] * y[i]]) - sx * sy
        g    == Gcd(cov * cov, ssx * ssy)
    IN  IF n < 1 THEN NaN
        ELSE IF ssx * ssy = 0 THEN NaN
        ELSE <<Sign(cov), (cov * cov) \div g, (ssx * ssy) \div g>>

\* the matrix over the frame's columns; each pair is computed once and mirrored
Corr(df) ==
    Frame(df.cols, df.cols,
          [a \in 1..NCols(df) |-> [b \in 1..NCols(df) |->
              Coef(df, Max(a, b), IF a <= b THEN a ELSE b)]])

(***************************************************************************)
(* prepare_matrix_data and rolling_corr_slice                              *)
(***************************************************************************)
ReturnsModes == {"Daily % change", "Daily log returns", "Price levels (no returns)"}

MissingPolicies == {"Drop rows with any NA", "Forward-fill then drop remaining"}

\* faulty variant: the policy is ignored and rows with a missing cell are dropped
CleanedDropOnly(prices_df, missing) == DropNa(prices_df)

\* line 127: the cleaned price table
Cleaned(prices_df, missing) ==
    IF missing = "Forward-fill then drop remaining"
    THEN The({DropNa(filled) : filled \in {Ffill(prices_df)}})
    ELSE DropNa(prices_df)

\* lines 130-136: the return table of a cleaned price table
Returns(df, mode) ==
    The({DropNaColumns(ret) : ret \in
           {IF mode = "Daily % change"
            THEN The({DropNaHowAll(chg) : chg \in {PctChange(df)}})
            ELSE IF mode = "Daily log returns"
            THEN The({DropNaHowAll(chg) : chg \in
                        {The({Diff(logs) : logs \in {NpLog(df)}})}})
            ELSE df}})

\* the pair (ret, corr), or (None, None)
prepare_matrix_data(prices_df, mode, missing) ==
    IF IsEmpty(prices_df) \/ NCols(prices_df) < 2 THEN <<None, None>>
    ELSE The({IF IsEmpty(df) THEN <<None, None>>
              ELSE The({IF NCols(ret) < 2 THEN <<None, None>> ELSE <<ret, Corr(ret)>> :
                           ret \in {Returns(df, mode)}}) :
                 df \in {Cleaned(prices_df, missing)}})

\* the rows start..stop-1 (0-based positions, as DataFrame.iloc[start:stop])
Iloc(df, start, stop) ==
    Take(df, [i \in 1..Max(0, stop - start) |-> start + i], AllCols(df))

\* faulty variant: the window starts one row early (end_idx - window)
rolling_corr_slice_early(ret, window, end_idx) ==
    IF IsNone(ret) THEN None
    ELSE IF IsEmpty(ret) THEN None
    ELSE IF end_idx < 0 \/ end_idx >= NRows(ret) THEN None
    ELSE LET start_idx == Max(0, end_idx - window)
         IN  The({IF NRows(window_df) < 2 THEN None
                  ELSE [kind |-> "tuple", corr |-> Corr(window_df),
                        win_start |-> window_df.idx[1],
                        win_end |-> window_df.idx[NRows(window_df)]] :
                     window_df \in {Iloc(ret, start_idx, end_idx + 1)}})

\* faulty variant: a slice of a single row is accepted (shape[0] < 1)
rolling_corr_slice_one_row(ret, window, end_idx) ==
    IF IsNone(ret) THEN None
    ELSE IF IsEmpty(ret) THEN None
    ELSE IF end_idx < 0 \/ end_idx >= NRows(ret) THEN None
    ELSE LET start_idx == Max(0, end_idx - window + 1)
         IN  The({IF NRows(window_df) < 1 THEN None
                  ELSE [kind |-> "tuple", corr |-> Corr(window_df),
                        win_start |-> window_df.idx[1],
                        win_end |-> window_df.idx[NRows(window_df)]] :
                     window_df \in {Iloc(ret, start_idx, end_idx + 1)}})

\* end_idx is a 0-based row position; the result is None or the tuple
\* (matrix, first date of the window, last date of the window)
rolling_corr_slice(ret, window, end_idx) ==
    IF IsNone(ret) THEN None
    ELSE IF IsEmpty(ret) THEN None
    ELSE IF end_idx < 0 \/ end_idx >= NRows(ret) THEN None
    ELSE LET start_idx == Max(0, end_idx - window + 1)
         IN  The({IF NRows(window_df) < 2 THEN None
                  ELSE [kind |-> "tuple", corr |-> Corr(window_df),
                        win_start |-> window_df.idx[1],
                        win_end |-> window_df.idx[NRows(window_df)]] :
                     window_df \in {Iloc(ret, start_idx, end_idx + 1)}})

(***************************************************************************)
(* fetch_prices: the frame yf.download returns and what the body makes of  *)
(* it.  A downloaded frame carries the flag multi (its columns are a       *)
(* MultiIndex of (field, ticker) pairs) or has flat columns, one <<field>> *)
(* each.                                                                   *)
(***************************************************************************)
\* df.columns.get_level_values(0), or df.columns of a flat frame
Level0(df) == {df.cols[c][1] : c \in 1..NCols(df)}

\* lines 97-101 and 105-109: the requested field if any column carries it,
\* else "Adj Close" if any column carries that, else "Close"
ChosenField(df, field) ==
    IF field \in Level0(df) THEN field
    ELSE IF "Adj Close" \in Level0(df) THEN "Adj Close" ELSE "Close"

\* df[[f]] of a flat frame, its columns then renamed to the ticker list
SelectFlat(df, f, tickers) ==
    LET cs == SortedSeq({c \in 1..NCols(df) : df.cols[c][1] = f})
        t  == Take(df, AllRows(df), cs)
    IN  Frame(tickers, t.idx, t.val)

Returned(v) == [exc |-> "None", value |-> v]

Raised(e) == [exc |-> e, value |-> None]

\* download is what yf.download(tickers, start, end + 1 day) returned; the rows of
\* a downloaded frame are in date order already, so sort_index() leaves them
fetch_prices(tickers, start, end, field, download) ==
    IF Len(tickers) = 0 THEN Returned(EmptyFrame)
    ELSE IF download.multi
    THEN IF ChosenField(download, field) \notin Level0(download) THEN Raised("KeyError")
         \* line 102: sub.columns is the flat ticker Index that df[field] leaves,
         \* and Index.get_level_values(1) of a flat Index raises
         ELSE Raised("IndexError")
    ELSE IF ChosenField(download, field) \notin Level0(download) THEN Raised("KeyError")
    ELSE IF Len(tickers) # 1 THEN Raised("ValueError")
    ELSE Returned(SelectFlat(download, ChosenField(download, field), tickers))

(***************************************************************************)
(* Bounds of the model                                                     *)
(***************************************************************************)
\* rows of a price table handed to prepare_matrix_data on its own
MaxPriceRows == 3

\* rows of a price table handed to resample_prices on its own
MaxResampleRows == 2

\* rows of a return table handed to rolling_corr_slice on its own
MaxReturnRows == 3

\* window lengths tried on rolling_corr_slice on its own
MaxWindowArg == 3

\* rows of a price table run through the script from resample_prices on
MaxPipeRows == 8

\* largest value of the window-size slider that is tried
MaxWindow == 10

\* calls of the cached fetch_prices in one history, and the last instant (seconds)
MaxCalls == 3

MaxNow == 3600

(***************************************************************************)
(* Inputs                                                                  *)
(***************************************************************************)
Tickers == <<"A", "B">>

\* trading days from Tuesday 1970-01-27 on: two week ends and a month end fall inside
TradingDays == <<26, 27, 28, 29, 32, 33, 34, 35, 36, 39, 40, 41>>

\* days a sparse price table may carry: Fridays 2, 9, 30 January, Monday 5 January,
\* Mondays 2 February and 2 March
SparseDays == {1, 4, 8, 29, 32, 60}

PriceCells == {NaN, Val(1), Val(2)}

Fields == {"Adj Close", "Open"}

\* the slider of line 75: 5, 10, ... up to its largest value tried
WindowSizes == {w \in 5..MaxWindow : w % 5 = 0}

(***************************************************************************)
(* The sidebar's settings and the resolved ticker list (lines 79-85)       *)
(***************************************************************************)
RECURSIVE Dedupe(_)
Dedupe(s) ==
    IF Len(s) = 0 THEN <<>>
    ELSE LET rest == Dedupe(SubSeq(s, 1, Len(s) - 1))
             x    == s[Len(s)]
         IN  IF \E i \in 1..Len(rest) : rest[i] = x THEN rest ELSE Append(rest, x)

Elems(s) == {s[i] : i \in 1..Len(s)}

\* sorted(set): the tickers of S in alphabetical order
SortedTickers(S) ==
    LET ks == SortedSeq({k \in 1..Len(Tickers) : Tickers[k] \in S})
    IN  [i \in 1..Len(ks) |-> Tickers[ks[i]]]

ResolveTickers(u) ==
    IF u.use_basket /\ Len(u.basket_ticks) > 0
    THEN IF u.append_basket
         THEN SortedTickers(Elems(u.manual) \cup Elems(u.basket_ticks))
         ELSE Dedupe(u.basket_ticks)
    ELSE u.manual

DefaultUi ==
    [manual |-> <<"A", "B">>, basket_ticks |-> <<>>, use_basket |-> FALSE,
     append_basket |-> TRUE, start_date |-> 26, end_date |-> 29,
     interval_label |-> "Daily", price_field |-> "Adj Close",
     returns_mode |-> "Daily % change",
     missing_handling |-> "Forward-fill then drop remaining",
     rolling_mode |-> FALSE, window_size |-> 5]

\* every combination of interval, returns mode, missing-data policy, rolling mode
\* and window size
OptionUis ==
    {[DefaultUi EXCEPT !.interval_label = i, !.returns_mode = m,
                       !.missing_handling = h, !.rolling_mode = r, !.window_size = w] :
        i \in IntervalLabels, m \in ReturnsModes, h \in MissingPolicies,
        r \in BOOLEAN, w \in WindowSizes}

\* the settings of a whole page run: ticker selection, field, date range and options
RunUis ==
    {[o EXCEPT !.manual = mn, !.basket_ticks = b, !.use_basket = ub,
               !.append_basket = ab, !.price_field = f, !.end_date = e] :
        o \in OptionUis, mn \in {<<>>, <<"A">>, <<"B", "A">>},
        b \in {<<>>, <<"B">>}, ub \in BOOLEAN, ab \in BOOLEAN, f \in Fields,
        e \in {29}}

(***************************************************************************)
(* What the market-data provider may return for a request                  *)
(***************************************************************************)
FieldPrice(f) == IF f = "Adj Close" THEN Val(1) ELSE IF f = "Close" THEN Val(2) ELSE Val(4)

DaysIn(start, end) ==
    SortedSeq({TradingDays[k] : k \in {j \in 1..Len(TradingDays) :
                   start <= TradingDays[j] /\ TradingDays[j] <= end}})

\* a downloaded frame with the given column keys over the given days
Downloaded(multi, keys, days) ==
    [kind |-> "DataFrame", multi |-> multi, cols |-> keys, idx |-> days,
     val |-> [r \in 1..Len(days) |-> [c \in 1..Len(keys) |-> FieldPrice(keys[c][1])]]]

FieldLists == {<<"Adj Close", "Close", "Open">>, <<"Close">>}

\* all (field, ticker) keys, field-major as yfinance lays them out
MultiKeys(fs, tickers) ==
    [k \in 1..(Len(fs) * Len(tickers)) |->
        <<fs[((k - 1) \div Len(tickers)) + 1], tickers[((k - 1) % Len(tickers)) + 1]>>]

Without(s, x) ==
    LET ks == SortedSeq({k \in 1..Len(s) : s[k] # x})
    IN  [i \in 1..Len(ks) |-> s[ks[i]]]

\* the frames yf.download may return for a non-empty ticker list: flat columns only
\* for a single ticker, the rows of the range or none, and possibly one symbol
\* without the "Open" field
ProviderFrames(tickers, start, end) ==
    LET dayss == {DaysIn(start, end), <<>>}
        multi == {Downloaded(TRUE, ks, d) :
                     ks \in UNION {{MultiKeys(fs, tickers)} \cup
                                   {Without(MultiKeys(fs, tickers), <<"Open", t>>) :
                                        t \in Elems(tickers)} : fs \in FieldLists},
                     d \in dayss}
        flat  == {Downloaded(FALSE, [k \in 1..Len(fs) |-> <<fs[k]>>], d) :
                     fs \in FieldLists, d \in dayss}
    IN  IF Len(tickers) = 1 THEN multi \cup flat ELSE multi

(***************************************************************************)
(* State                                                                   *)
(***************************************************************************)
VARIABLES
    pc,               \* where the script stands
    ui,               \* the sidebar's settings of this run
    download,         \* the frame yf.download returned to the last call, if it was called
    fetched,          \* outcome of the last fetch_prices call: [exc, value]
    prices_raw, prices, returns_df, corr_df,
    end_pos,          \* the window-end slider, or the end_idx argument
    out,              \* what rolling_corr_slice returned
    corr_to_download, \* Unbound until a display branch assigns it
    shown,            \* what the run has put on the page
    exc,              \* the exception that ended the run, "None" if none
    cache,            \* st.cache_data's entries for fetch_prices: [key, value, at]
    now,              \* seconds
    ncalls,           \* calls of fetch_prices so far
    call,             \* the last call, with what was known of its key before it
    hist              \* per key: the last call and the last call that stored a result

vars == <<pc, ui, download, fetched, prices_raw, prices, returns_df, corr_df, end_pos,
          out, corr_to_download, shown, exc, cache, now, ncalls, call, hist>>

Unbound == [kind |-> "Unbound"]

\* @st.cache_data(ttl=3600)
ttl == 3600

\* the cache keys a call by its four arguments
CacheKey(tickers, start, end, field) == <<tickers, start, end, field>>

\* faulty variant: an entry never expires
FreshForever(e, key, t) == e.key = key

\* an entry answers a call at time t while it is younger than ttl
Fresh(e, key, t) == e.key = key /\ t - e.at < ttl

NoHist(args) ==
    [args |-> args, last_at |-> 0 - 1, last_exc |-> "None", last_value |-> None,
     store_at |-> 0 - 1, store_value |-> None]

HistOf(args) ==
    IF \E h \in hist : h.args = args THEN CHOOSE h \in hist : h.args = args
    ELSE NoHist(args)

NoCall ==
    [args |-> <<>>, at |-> 0 - 1, hit |-> FALSE, provider |-> FALSE, exc |-> "None",
     value |-> None, prev_at |-> 0 - 1, prev_exc |-> "None", prev_value |-> None,
     store_at |-> 0 - 1, store_value |-> None]

\* the bookkeeping of one call with arguments args, filed in the cache under key:
\* r is its outcome, df the frame the provider returned
Finish(args, key, hit, provider, r, df) ==
    LET h == HistOf(args)
        stores == ~hit /\ r.exc = "None"
    IN  /\ fetched' = r
        /\ download' = df
        /\ cache' = IF hit THEN cache
                     ELSE {e \in cache : e.key # key} \cup
                          (IF stores THEN {[key |-> key, value |-> r.value, at |-> now]}
                           ELSE {})
        /\ call' = [args |-> args, at |-> now, hit |-> hit, provider |-> provider,
                     exc |-> r.exc, value |-> r.value,
                     prev_at |-> h.last_at, prev_exc |-> h.last_exc,
                     prev_value |-> h.last_value,
                     store_at |-> h.store_at, store_value |-> h.store_value]
        /\ hist' = {g \in hist : g.args # args} \cup
                    {[args |-> args, last_at |-> now, last_exc |-> r.exc,
                      last_value |-> r.value,
                      store_at |-> IF stores THEN now ELSE h.store_at,
                      store_value |-> IF stores THEN r.value ELSE h.store_value]}
        /\ ncalls' = ncalls + 1

\* a call of the decorated fetch_prices: a fresh entry answers it; otherwise the
\* body runs, asking the provider unless the ticker list is empty, and what it
\* returns is stored (an exception stores nothing)
CachedFetch(tickers, start, end, field) ==
    LET args == <<tickers, start, end, field>>
        key  == CacheKey(tickers, start, end, field)
        live == {e \in cache : Fresh(e, key, now)}
    IN  IF live # {}
        THEN \E e \in live : Finish(args, key, TRUE, FALSE, Returned(e.value), None)
        ELSE IF Len(tickers) = 0
        THEN Finish(args, key, FALSE, FALSE,
                    fetch_prices(tickers, start, end, field, None), None)
        ELSE \E df \in ProviderFrames(tickers, start, end) :
                 Finish(args, key, FALSE, TRUE,
                        fetch_prices(tickers, start, end, field, df), df)

(***************************************************************************)
(* The script, section by section                                          *)
(***************************************************************************)
\* line 156
FetchStep ==
    /\ pc = "fetch"
    /\ CachedFetch(ResolveTickers(ui), ui.start_date, ui.end_date, ui.price_field)
    /\ IF fetched'.exc = "None"
       THEN prices_raw' = fetched'.value /\ pc' = "resample" /\ exc' = exc
       ELSE prices_raw' = prices_raw /\ pc' = "crashed" /\ exc' = fetched'.exc
    /\ UNCHANGED <<ui, prices, returns_df, corr_df, end_pos, out, corr_to_download,
                   shown, now>>

\* line 157
ResampleStep ==
    /\ pc = "resample"
    /\ prices' = resample_prices(prices_raw, ui.interval_label)
    /\ pc' = "prepare"
    /\ UNCHANGED <<ui, download, fetched, prices_raw, returns_df, corr_df, end_pos, out,
                   corr_to_download, shown, exc, cache, now, ncalls, call, hist>>

\* line 158
PrepareStep ==
    /\ pc = "prepare"
    /\ \E r \in {prepare_matrix_data(prices, ui.returns_mode, ui.missing_handling)} :
         returns_df' = r[1] /\ corr_df' = r[2]
    /\ pc' = "display"
    /\ UNCHANGED <<ui, download, fetched, prices_raw, prices, end_pos, out,
                   corr_to_download, shown, exc, cache, now, ncalls, call, hist>>

\* lines 176-222.  The window-end slider e is read only in the feasible rolling
\* branch; the download buttons belong to the else branch of line 178 and read
\* corr_to_download, which raises NameError while it is unbound.
DisplayStep ==
    /\ pc = "display"
    /\ IF IsNone(returns_df)
       THEN /\ shown' = shown \cup {"info: select at least two tickers"}
            /\ pc' = "done"
            /\ UNCHANGED <<end_pos, out, corr_to_download, exc>>
       ELSE LET n        == NRows(returns_df)
                feasible == ui.rolling_mode /\ ui.window_size < n
            IN  \E e \in IF feasible THEN (ui.window_size - 1)..(n - 1) ELSE {end_pos} :
                \E o \in {IF feasible
                          THEN rolling_corr_slice(returns_df, ui.window_size, e)
                          ELSE out} :
                  LET ctd  == IF ~ui.rolling_mode THEN corr_df
                              ELSE IF feasible /\ ~IsNone(o) THEN o.corr
                              ELSE corr_to_download
                      msgs == IF ~ui.rolling_mode THEN {"correlation matrix"}
                              ELSE IF ~feasible THEN {"warning: window too large"}
                              ELSE IF IsNone(o) THEN {"info: not enough data in window"}
                              ELSE {"rolling correlation matrix"}
                  IN  /\ end_pos' = e
                      /\ out' = o
                      /\ corr_to_download' = ctd
                      /\ IF ctd.kind = "Unbound"
                         THEN /\ shown' = shown \cup msgs
                              /\ exc' = "NameError"
                              /\ pc' = "crashed"
                         ELSE /\ shown' = shown \cup msgs \cup
                                     {"download correlation CSV", "download returns CSV"}
                              /\ exc' = exc
                              /\ pc' = "done"
    /\ UNCHANGED <<ui, download, fetched, prices_raw, prices, returns_df, corr_df,
                   cache, now, ncalls, call, hist>>

(***************************************************************************)
(* Calls made on their own                                                 *)
(***************************************************************************)
\* rolling_corr_slice(returns_df, w, i) for any window length and end position
CallSlice ==
    /\ pc \in {"slice", "display"}
    /\ \E w \in 1..MaxWindowArg,
          i \in (0 - 1)..(IF IsNone(returns_df) THEN 0 ELSE NRows(returns_df)) :
            /\ ui' = [ui EXCEPT !.window_size = w]
            /\ end_pos' = i
            /\ out' = rolling_corr_slice(returns_df, w, i)
    /\ pc' = "sliced"
    /\ UNCHANGED <<download, fetched, prices_raw, prices, returns_df, corr_df,
                   corr_to_download, shown, exc, cache, now, ncalls, call, hist>>

\* the requests the page makes of fetch_prices over a sequence of runs
Requests ==
    {<<t, 26, 29, "Adj Close">> : t \in {<<>>, <<"A">>, <<"A", "B">>}}
        \cup {<<<<"A">>, 26, 29, "Open">>, <<<<"A">>, 26, 33, "Adj Close">>}

CallFetch ==
    /\ pc = "calls"
    /\ ncalls < MaxCalls
    /\ \E q \in Requests : CachedFetch(q[1], q[2], q[3], q[4])
    /\ UNCHANGED <<pc, ui, prices_raw, prices, returns_df, corr_df, end_pos, out,
                   corr_to_download, shown, exc, now>>

Tick ==
    /\ pc = "calls"
    /\ \E d \in {1800} : now + d <= MaxNow /\ now' = now + d
    /\ UNCHANGED <<pc, ui, download, fetched, prices_raw, prices, returns_df, corr_df,
                   end_pos, out, corr_to_download, shown, exc, cache, ncalls, call, hist>>

(***************************************************************************)
(* Input tables                                                            *)
(***************************************************************************)
Days(n) == SubSeq(TradingDays, 1, n)

Grids(n, k, cells) == [1..n -> [1..k -> cells]]

\* price tables over consecutive trading days, any cell possibly missing
PrepTables ==
    UNION {{Frame(cols, Days(n), v) : v \in Grids(n, Len(cols), PriceCells)} :
               cols \in {<<"A">>, <<"A", "B">>}, n \in 0..MaxPriceRows}

\* price tables over consecutive trading days, no cell missing
DenseTables ==
    UNION {{Frame(<<"A", "B">>, Days(n), v) : v \in Grids(n, 2, PriceCells \ {NaN})} :
               n \in 0..MaxPriceRows}

\* price tables over any ascending choice of sparse days
ResampleTables ==
    UNION {{Frame(cols, SortedSeq(D), v) : v \in Grids(Cardinality(D), Len(cols), PriceCells)} :
               cols \in {<<"A">>, <<"A", "B">>},
               D \in {E \in SUBSET SparseDays : Cardinality(E) <= MaxResampleRows}}

\* dense return tables, the empty ones and None
ReturnTables ==
    {None, EmptyFrame} \cup
    UNION {{Frame(<<"A", "B">>, Days(n), v) : v \in Grids(n, 2, {Val(0), Val(1), Val(2)})} :
               n \in 0..MaxReturnRows}

\* the price of row r in a series of shape k: flat, alternating, or 1, 2, 4 repeating
ShapeCell(k, r) ==
    IF k = 1 THEN Val(1)
    ELSE IF k = 2 THEN Val(1 + (r % 2))
    ELSE IF r % 3 = 1 THEN Val(1) ELSE IF r % 3 = 2 THEN Val(2) ELSE Val(4)

\* one or two columns of n rows, each of some shape, each possibly starting with a gap
PipeTables ==
    {EmptyFrame} \cup
    {Frame(cols, Days(n),
           [r \in 1..n |-> [c \in 1..Len(cols) |->
               IF r = 1 /\ gap[c] THEN NaN ELSE ShapeCell(shape[c], r)]]) :
        cols \in {<<"A">>, <<"A", "B">>}, n \in 0..MaxPipeRows,
        shape \in [1..2 -> 1..3], gap \in [1..2 -> BOOLEAN]}

(***************************************************************************)
(* Specifications                                                          *)
(***************************************************************************)
Blank ==
    /\ download = None
    /\ fetched = Returned(None)
    /\ prices_raw = None
    /\ prices = None
    /\ returns_df = None
    /\ corr_df = None
    /\ end_pos = 0
    /\ out = None
    /\ corr_to_download = Unbound
    /\ shown = {}
    /\ exc = "None"
    /\ cache = {}
    /\ now = 0
    /\ ncalls = 0
    /\ call = NoCall
    /\ hist = {}

\* one run of the page, from the fetch to the end, on a cold cache
Init == pc = "fetch" /\ ui \in RunUis /\ Blank

Next == FetchStep \/ ResampleStep \/ PrepareStep \/ DisplayStep

Spec == Init /\ [][Next]_vars

\* the script from line 157 on, for the price tables a fetch may have returned
InitPipe ==
    /\ pc = "resample"
    /\ ui \in OptionUis
    /\ \E t \in PipeTables :
          /\ prices_raw = t
          /\ fetched = Returned(None)
          /\ download = None /\ prices = None /\ returns_df = None /\ corr_df = None
          /\ end_pos = 0 /\ out = None /\ corr_to_download = Unbound /\ shown = {}
          /\ exc = "None" /\ cache = {} /\ now = 0 /\ ncalls = 0 /\ call = NoCall
          /\ hist = {}

NextPipe == ResampleStep \/ PrepareStep \/ DisplayStep

SpecPipe == InitPipe /\ [][NextPipe]_vars

\* the fetch_prices calls of a sequence of page runs, time passing between them
InitCache == pc = "calls" /\ ui = DefaultUi /\ Blank

NextCache == CallFetch \/ Tick

SpecCache == InitCache /\ [][NextCache]_vars

\* prepare_matrix_data on any small price table
InitPrepare ==
    /\ pc = "prepare"
    /\ ui \in {o \in OptionUis : o.interval_label = "Daily" /\ ~o.rolling_mode
                                    /\ o.window_size = 5}
    /\ \E t \in PrepTables :
          /\ prices = t
          /\ prices_raw = None
          /\ fetched = Returned(None)
          /\ download = None /\ returns_df = None /\ corr_df = None
          /\ end_pos = 0 /\ out = None /\ corr_to_download = Unbound /\ shown = {}
          /\ exc = "None" /\ cache = {} /\ now = 0 /\ ncalls = 0 /\ call = NoCall
          /\ hist = {}

NextPrepare == PrepareStep

SpecPrepare == InitPrepare /\ [][NextPrepare]_vars

\* prepare_matrix_data on any small price table without gaps, then
\* rolling_corr_slice on the return table it made
InitCorr ==
    /\ pc = "prepare"
    /\ ui \in {o \in OptionUis : o.interval_label = "Daily" /\ ~o.rolling_mode
                                    /\ o.window_size = 5
                                    /\ o.missing_handling = "Drop rows with any NA"}
    /\ \E t \in DenseTables :
          /\ prices = t
          /\ prices_raw = None
          /\ fetched = Returned(None)
          /\ download = None /\ returns_df = None /\ corr_df = None
          /\ end_pos = 0 /\ out = None /\ corr_to_download = Unbound /\ shown = {}
          /\ exc = "None" /\ cache = {} /\ now = 0 /\ ncalls = 0 /\ call = NoCall
          /\ hist = {}

NextCorr == PrepareStep \/ CallSlice

SpecCorr == InitCorr /\ [][NextCorr]_vars

\* rolling_corr_slice on any small return table, None or an empty table
InitSlice ==
    /\ pc = "slice"
    /\ ui = DefaultUi
    /\ \E t \in ReturnTables :
          /\ returns_df = t
          /\ fetched = Returned(None)
          /\ download = None /\ prices = None /\ prices_raw = None /\ corr_df = None
          /\ end_pos = 0 /\ out = None /\ corr_to_download = Unbound /\ shown = {}
          /\ exc = "None" /\ cache = {} /\ now = 0 /\ ncalls = 0 /\ call = NoCall
          /\ hist = {}

NextSlice == CallSlice

SpecSlice == InitSlice /\ [][NextSlice]_vars

\* resample_prices on any small price table with gaps between its dates
InitResample ==
    /\ pc = "resample"
    /\ ui \in {o \in OptionUis : o.returns_mode = "Daily % change" /\ ~o.rolling_mode
                                    /\ o.window_size = 5
                                    /\ o.missing_handling = "Drop rows with any NA"}
    /\ \E t \in ResampleTables :
          /\ prices_raw = t
          /\ fetched = Returned(None)
          /\ download = None /\ prices = None /\ returns_df = None /\ corr_df = None
          /\ end_pos = 0 /\ out = None /\ corr_to_download = Unbound /\ shown = {}
          /\ exc = "None" /\ cache = {} /\ now = 0 /\ ncalls = 0 /\ call = NoCall
          /\ hist = {}

NextResample == ResampleStep

SpecResample == InitResample /\ [][NextResample]_vars

(***************************************************************************)
(* Properties                                                              *)
(***************************************************************************)
Ended == pc \in {"done", "crashed"}

Prepared == pc \in {"display", "sliced", "done", "crashed"}

\* C1: every run reaches its end without an unhandled exception, whatever the
\* settings and the price table: no run ends in the crashed state.
C1_NoRunCrashes == pc # "crashed" /\ exc = "None"

\* C2: whenever prepare_matrix_data returns a correlation matrix, the return table
\* it returns with it has at least 2 columns and at least 2 rows.
C2_MatrixNeedsTwoRows ==
    (Prepared /\ ~IsNone(corr_df)) =>
        /\ ~IsNone(returns_df)
        /\ NCols(returns_df) >= 2
        /\ NRows(returns_df) >= 2

RollingRun == Ended /\ ui.rolling_mode /\ ~IsNone(returns_df)

\* rows lo..hi (1-based) of the return table are what the window covers
WindowIs(lo, hi) ==
    /\ ~IsNone(out)
    /\ "rolling correlation matrix" \in shown
    /\ out.win_start = returns_df.idx[lo]
    /\ out.win_end = returns_df.idx[hi]
    /\ out.corr = Corr(Take(returns_df, [k \in 1..(hi - lo + 1) |-> lo + k - 1],
                             AllCols(returns_df)))
    /\ corr_to_download = out.corr

Infeasible ==
    /\ "warning: window too large" \in shown
    /\ "rolling correlation matrix" \notin shown
    /\ IsNone(out)
    /\ corr_to_download = Unbound

\* C3 as stated: in rolling mode with n return rows, a window W >= n is reported
\* as infeasible and no windowed matrix is computed, and a window W = n - 1 yields
\* a matrix over all rows but the first.
C3_AsStated ==
    RollingRun =>
        /\ ui.window_size >= NRows(returns_df) => Infeasible
        /\ ui.window_size = NRows(returns_df) - 1 => WindowIs(2, NRows(returns_df))

\* C3 amended: in rolling mode with n return rows, a window W >= n is reported as
\* infeasible and no windowed matrix is computed; a window W < n yields the matrix
\* of the W rows ending at the slider position, so W = n - 1 covers all rows but
\* the first with the slider at its default, last position n - 1, and all rows but
\* the last at the only other position, n - 2.
C3_WindowAtSlider ==
    RollingRun =>
        /\ ui.window_size >= NRows(returns_df) => Infeasible
        /\ ui.window_size < NRows(returns_df) =>
               WindowIs(end_pos - ui.window_size + 2, end_pos + 1)
        /\ (ui.window_size = NRows(returns_df) - 1 /\ end_pos = NRows(returns_df) - 1)
               => WindowIs(2, NRows(returns_df))
        /\ (ui.window_size = NRows(returns_df) - 1 /\ end_pos = NRows(returns_df) - 2)
               => WindowIs(1, NRows(returns_df) - 1)

\* a rolling run whose window is one row shorter than the return table, the slider
\* at its default position
C3_Witness ==
    /\ RollingRun
    /\ ui.window_size = NRows(returns_df) - 1
    /\ end_pos = NRows(returns_df) - 1
    /\ ~IsNone(out)

\* the rows of the return table that rolling_corr_slice was asked about (0-based
\* first position, and the number of rows from it to end_pos)
SliceStart == Max(0, end_pos - ui.window_size + 1)

SliceRows == end_pos - SliceStart + 1

NoSliceResult ==
    IF IsNone(returns_df) THEN TRUE
    ELSE \/ IsEmpty(returns_df)
         \/ end_pos < 0
         \/ end_pos > NRows(returns_df) - 1
         \/ SliceRows < 2

SliceFrame ==
    Take(returns_df, [k \in 1..SliceRows |-> SliceStart + k], AllCols(returns_df))

\* C4: rolling_corr_slice(ret, W, i) returns the matrix of exactly the rows
\* max(0, i-W+1)..i together with the dates of the first and the last of them, and
\* returns None exactly when ret is None or empty, i is outside 0..len(ret)-1 or
\* the slice has fewer than 2 rows.
C4_SliceRowsAndDates ==
    pc = "sliced" =>
        /\ IsNone(out) <=> NoSliceResult
        /\ ~NoSliceResult =>
               /\ out.corr = Corr(SliceFrame)
               /\ out.win_start = returns_df.idx[SliceStart + 1]
               /\ out.win_end = returns_df.idx[end_pos + 1]

\* a result for a window that starts after the first row and has more than 2 rows
C4_Witness ==
    /\ pc = "sliced"
    /\ ~IsNone(out)
    /\ SliceStart > 0
    /\ SliceRows = ui.window_size
    /\ out.win_start = returns_df.idx[2]

\* column c holds one and the same value in every row of df
ConstantColumn(df, c) == \A r \in 1..NRows(df) : df.val[r][c] = df.val[1][c]

\* m is symmetric, 1.0 on the diagonal, and within [-1, 1] everywhere
UnitMatrix(m) ==
    \A a \in 1..NCols(m), b \in 1..NCols(m) :
        /\ m.val[a][b] = m.val[b][a]
        /\ m.val[a][a] = <<1, 1, 1>>
        /\ ~IsNa(m.val[a][b])
        /\ m.val[a][b][2] <= m.val[a][b][3]

\* m is symmetric; a cell of two columns that both vary over the rows of df is
\* within [-1, 1], and 1.0 on the diagonal; a cell of a constant column is NaN
UnitMatrixOf(m, df) ==
    /\ m.cols = df.cols
    /\ m.idx = df.cols
    /\ \A a \in 1..NCols(df), b \in 1..NCols(df) :
          /\ m.val[a][b] = m.val[b][a]
          /\ IF ConstantColumn(df, a) \/ ConstantColumn(df, b)
             THEN IsNa(m.val[a][b])
             ELSE /\ ~IsNa(m.val[a][b])
                  /\ m.val[a][b][2] <= m.val[a][b][3]
                  /\ a = b => m.val[a][b] = <<1, 1, 1>>

Observed(df, r, c) == \E q \in 1..r : ~IsNa(df.val[q][c])

RowOfDate(df, d) == CHOOSE r \in 1..NRows(df) : df.idx[r] = d

DatesOf(df) == {df.idx[r] : r \in 1..NRows(df)}

\* c is df without the rows before the first row at which every column has had an
\* observation, every missing cell filled with the latest earlier value of its column
FilledFromFirstFullRow(c, df) ==
    LET full  == {r \in 1..NRows(df) : \A k \in 1..NCols(df) : Observed(df, r, k)}
        first == IF full = {} THEN NRows(df) + 1
                 ELSE CHOOSE r \in full : \A q \in full : r <= q
    IN  /\ c.cols = df.cols
        /\ NRows(c) = NRows(df) - first + 1
        /\ \A i \in 1..NRows(c) :
              /\ c.idx[i] = df.idx[first + i - 1]
              /\ \A k \in 1..NCols(df) :
                    LET r    == first + i - 1
                        seen == {q \in 1..r : ~IsNa(df.val[q][k])}
                        last == CHOOSE q \in seen : \A z \in seen : z <= q
                    IN  ~IsNa(c.val[i][k]) /\ c.val[i][k] = df.val[last][k]

\* c is df without exactly the rows that hold a missing cell
WithoutRowsWithNa(c, df) ==
    /\ c.cols = df.cols
    /\ DatesOf(c) = {df.idx[r] : r \in {q \in 1..NRows(df) : ~RowHasNa(df, q)}}
    /\ \A i \in 1..NRows(c) :
          /\ c.val[i] = df.val[RowOfDate(df, c.idx[i])]
          /\ \A j \in 1..(i - 1) : c.idx[j] < c.idx[i]

CleaningRan == Prepared /\ ~IsEmpty(prices) /\ NCols(prices) >= 2

\* C9: under forward-fill-then-drop the cleaned table of prepare_matrix_data has no
\* missing cell, every filled cell holds the latest earlier value of its column and
\* the rows removed are exactly those before the first row at which every column
\* has had an observation; under drop-any-NA the rows removed are exactly those
\* with a missing cell.  (With price levels the cleaned table is the return table.)
C9_CleanedTable ==
    CleaningRan =>
        LET c == Cleaned(prices, ui.missing_handling)
        IN  /\ IF ui.missing_handling = "Forward-fill then drop remaining"
               THEN FilledFromFirstFullRow(c, prices)
               ELSE WithoutRowsWithNa(c, prices)
            /\ ui.returns_mode = "Price levels (no returns)" =>
                   IF IsEmpty(c) THEN IsNone(returns_df) ELSE returns_df = c

\* forward fill at work: the first row dropped, a later gap filled, the result kept
C9_Witness ==
    /\ CleaningRan
    /\ ui.missing_handling = "Forward-fill then drop remaining"
    /\ ui.returns_mode = "Price levels (no returns)"
    /\ ~IsNone(returns_df)
    /\ NRows(prices) = 3
    /\ NRows(returns_df) = 2
    /\ IsNa(prices.val[3][1])
    /\ ~IsNa(prices.val[2][1])

\* C6 as stated: a call whose arguments equal those of an earlier call made less
\* than 3600 s before returns that call's result without calling the provider;
\* any other call calls the provider.
C6_AsStated ==
    call.at >= 0 =>
        IF call.prev_at >= 0 /\ call.at - call.prev_at < ttl
        THEN /\ ~call.provider
             /\ call.exc = "None"
             /\ call.prev_exc = "None"
             /\ call.value = call.prev_value
        ELSE call.provider

\* C6 amended: a call whose arguments equal those of an earlier call that ran the
\* function body and returned a table less than 3600 s before (the call that
\* stored the cache entry, not a later call answered from the cache) returns that
\* table without calling the provider; every other call runs the body, which calls
\* the provider unless the ticker list is empty; a call that raises stores nothing.
C6_ReusesStoredResult ==
    call.at >= 0 =>
        IF call.store_at >= 0 /\ call.at - call.store_at < ttl
        THEN /\ call.hit
             /\ ~call.provider
             /\ call.exc = "None"
             /\ call.value = call.store_value
        ELSE /\ ~call.hit
             /\ call.provider <=> Len(call.args[1]) > 0

\* a call for one ticker answered from an entry stored earlier, rows and all
C6_Witness ==
    /\ call.at > 0
    /\ call.hit
    /\ ~call.provider
    /\ call.store_at >= 0
    /\ call.store_at < call.at
    /\ Len(call.args[1]) = 1
    /\ NRows(call.value) > 0

NoMatrixShown ==
    shown \cap {"correlation matrix", "rolling correlation matrix",
                "download correlation CSV", "download returns CSV"} = {}

\* C7: with fewer than 2 resolved tickers the run does not raise, the pipeline
\* yields (None, None), the guidance message is shown and neither a matrix nor a
\* download is offered.
C7_FewTickersNoResult ==
    (Ended /\ Len(ResolveTickers(ui)) < 2) =>
        /\ exc = "None"
        /\ pc = "done"
        /\ IsNone(returns_df)
        /\ IsNone(corr_df)
        /\ "info: select at least two tickers" \in shown
        /\ NoMatrixShown

\* the downloaded frame has a column of field f for symbol s
HasField(df, f, s) ==
    \E c \in 1..NCols(df) : df.cols[c] = IF df.multi THEN <<f, s>> ELSE <<f>>

FieldColumn(df, f, s) ==
    Column(df, CHOOSE c \in 1..NCols(df) : df.cols[c] = IF df.multi THEN <<f, s>> ELSE <<f>>)

\* the field symbol s should get: the requested one, else Adj Close, else Close
SymbolField(df, field, s) ==
    IF HasField(df, field, s) THEN field
    ELSE IF HasField(df, "Adj Close", s) THEN "Adj Close" ELSE "Close"

\* C8: fetch_prices falls back per symbol: every requested symbol gets its column
\* from the requested field if the provider has it for that symbol, else from
\* Adj Close, else from Close.
C8_PerSymbolFallback ==
    (pc # "fetch" /\ call.provider) =>
        /\ fetched.exc = "None"
        /\ \A s \in Elems(call.args[1]) :
              \E c \in 1..NCols(fetched.value) :
                  /\ fetched.value.cols[c] = s
                  /\ Column(fetched.value, c)
                        = FieldColumn(download, SymbolField(download, call.args[4], s), s)

Resampled == pc = "prepare" /\ ~IsEmpty(prices_raw)

BinEnd(d) == IF ui.interval_label = "Weekly (Fri close)" THEN WeekEnd(d) ELSE MonthEnd(d)

\* the input rows whose week (month) ends on day b
Group(b) == {r \in 1..NRows(prices_raw) : BinEnd(prices_raw.idx[r]) = b}

\* every cell of the output is the last observed price of its column within the
\* group its row stands for, missing if the group has none
CellsAreGroupLast ==
    \A i \in 1..NRows(prices), c \in 1..NCols(prices_raw) :
        LET seen == {r \in Group(prices.idx[i]) : ~IsNa(prices_raw.val[r][c])}
        IN  IF seen = {} THEN IsNa(prices.val[i][c])
            ELSE prices.val[i][c]
                   = prices_raw.val[CHOOSE r \in seen : \A q \in seen : q <= r][c]

\* C10 as stated: weekly and monthly resampling keep the column set, return at most
\* as many rows as the input, each cell the last observed price of its column
\* within its group; daily returns the input unchanged.
C10_AsStated ==
    Resampled =>
        IF ui.interval_label = "Daily" THEN prices = prices_raw
        ELSE /\ prices.cols = prices_raw.cols
             /\ NRows(prices) <= NRows(prices_raw)
             /\ CellsAreGroupLast

\* the week ends (month ends) from the first date's to the last date's
SpannedBins ==
    LET lo == BinEnd(prices_raw.idx[1])
        hi == BinEnd(prices_raw.idx[NRows(prices_raw)])
    IN  IF ui.interval_label = "Weekly (Fri close)"
        THEN {b \in lo..hi : Weekday(b) = 4}
        ELSE {b \in lo..hi : \E k \in 1..Len(MonthEnds) : MonthEnds[k] = b}

\* C10 amended: weekly and monthly resampling keep the column set and return one
\* row for every week (month) from the first date's to the last date's, in order,
\* the weeks (months) without any input row included: at most as many rows as the
\* input only when no such week (month) is empty, and more than the input when the
\* dates lie far enough apart.  Each cell is the last observed price of its column
\* within its group, missing if the group has none, never another group's value;
\* daily returns the input unchanged.
C10_OneRowPerSpannedBin ==
    Resampled =>
        IF ui.interval_label = "Daily" THEN prices = prices_raw
        ELSE /\ prices.cols = prices_raw.cols
             /\ DatesOf(prices) = SpannedBins
             /\ NRows(prices) = Cardinality(SpannedBins)
             /\ \A i \in 2..NRows(prices) : prices.idx[i - 1] < prices.idx[i]
             /\ (\A b \in SpannedBins : Group(b) # {}) => NRows(prices) <= NRows(prices_raw)
             /\ CellsAreGroupLast

\* a weekly resampling that returns more rows than it was given, one of them for a
\* week without any input row
C10_Witness ==
    /\ Resampled
    /\ ui.interval_label = "Weekly (Fri close)"
    /\ NRows(prices) > NRows(prices_raw)
    /\ \E b \in SpannedBins : Group(b) = {}
    /\ \E i \in 1..NRows(prices) : ~IsNa(prices.val[i][1])

====
